---- MODULE Spec2Model ----
(***************************************************************************)
(* TTFtoSVGConverter (src/main.py): glyph outlines of a TrueType font      *)
(* rendered as SVG documents, for one character (char_to_svg), a batch of  *)
(* characters (batch_convert) and a run of text (text_to_svg).             *)
(*                                                                         *)
(* Strings are sequences of Unicode code points, so that glyph names       *)
(* ("uni" + hex), file names ("u" + hex + ".svg") and text.split are       *)
(* computed as the code computes them.  line_height is a float in the      *)
(* code; the model carries it in tenths (12 is 1.2) and every quantity     *)
(* derived from it (line spacing, y positions, document height) in tenths  *)
(* of a design unit.                                                       *)
(***************************************************************************)
EXTENDS Integers, Sequences, FiniteSets, TLC

VARIABLES
    font,   \* self.font / self.glyphset: the loaded font, read-only after __init__
    input,  \* the string the caller hands to the converter (char, chars or text)
    fs,     \* the file system: path -> [kind, complete, data] for every existing entry
    last    \* the last completed call: [op, args, raised, ret]

vars == <<font, input, fs, last>>

\* ---------------------------------------------------------------- bounds

MaxBatchLen == 2

MaxTextLen == 4

\* ---------------------------------------------------------------- strings

\* 'A' (U+0041), the CJK character U+4E2D, and '\n'
Chars == {65, 20013, 10}

RECURSIVE Strings(_)
Strings(n) ==
    IF n = 0 THEN {<<>>}
    ELSE LET shorter == Strings(n - 1)
         IN shorter \cup {Append(s, c) : s \in {t \in shorter : Len(t) = n - 1}, c \in Chars}

\* one hexadecimal digit as format(.., 'x') writes it: '0'..'9', 'a'..'f'
HexDigit(d) == IF d < 10 THEN 48 + d ELSE 87 + d

RECURSIVE HexLower(_)
HexLower(n) ==
    IF n < 16 THEN <<HexDigit(n)>>
    ELSE Append(HexLower(n \div 16), HexDigit(n % 16))

\* str.upper() on the code points this model uses: 'a'..'z' -> 'A'..'Z'
Upper(s) == [i \in 1..Len(s) |-> IF s[i] >= 97 /\ s[i] <= 122 THEN s[i] - 32 ELSE s[i]]

\* format(ord(char), 'x').upper()
CharHex(char) == Upper(HexLower(char))

\* f'uni{char_hex}'
UniName(char) == <<117, 110, 105>> \o CharHex(char)

\* the glyph name that is the literal character
LiteralName(char) == <<char>>

\* ---------------------------------------------------------------- fonts

\* A glyph of the font file: its name, its outline (the pen commands
\* glyph.draw issues), its bounds (<<>> when the glyph has no contours) and
\* its hmtx entry (<<>> when hmtx has no entry for the name).
Box(xMin, yMin, xMax, yMax) ==
    << [op |-> "moveTo", x |-> xMin, y |-> yMin],
       [op |-> "lineTo", x |-> xMax, y |-> yMin],
       [op |-> "lineTo", x |-> xMax, y |-> yMax],
       [op |-> "lineTo", x |-> xMin, y |-> yMax],
       [op |-> "closePath", x |-> 0, y |-> 0] >>

GlyphPool ==
    { [name |-> UniName(65), outline |-> Box(50, 0, 550, 700),
       bounds |-> <<50, 0, 550, 700>>, metrics |-> <<600, 50>>],
      [name |-> LiteralName(65), outline |-> Box(0, -200, 500, 500),
       bounds |-> <<0, -200, 500, 500>>, metrics |-> <<500, 0>>],
      [name |-> UniName(20013), outline |-> Box(60, -80, 860, 780),
       bounds |-> <<60, -80, 860, 780>>, metrics |-> <<920, 60>>],
      [name |-> UniName(20013), outline |-> <<>>,
       bounds |-> <<>>, metrics |-> <<>>] }

MkFont(entries) ==
    LET names == {e.name : e \in entries}
        entry(n) == CHOOSE e \in entries : e.name = n
    IN [ glyphs |-> [n \in names |-> [outline |-> entry(n).outline,
                                      bounds |-> entry(n).bounds]],
         hmtx   |-> [n \in {m \in names : entry(m).metrics # <<>>} |-> entry(n).metrics],
         hhea   |-> [ascent |-> 800, descent |-> -200] ]

Fonts ==
    { MkFont(S) : S \in { T \in SUBSET GlyphPool :
                            \A e1, e2 \in T : e1.name = e2.name => e1 = e2 } }

\* self.glyphset
GlyphSet(f) == DOMAIN f.glyphs

\* ---------------------------------------------------------------- files

\* what open(output_path, 'w') followed by f.write(svg_content) can do
IOOutcomes == {"ok", "open_fails", "write_fails"}

CharOutPath == <<111, 46, 115, 118, 103>>       \* "o.svg"

TextOutPath == <<116, 46, 115, 118, 103>>       \* "t.svg"

NoPath == <<>>

\* open(path, 'w') creates or truncates the file; f.write then stores the
\* content.  A failing open leaves the file system as it was; a failing write
\* (or flush on close) leaves the truncated file holding a strict prefix of
\* the content.
WriteFile(files, path, content, io) ==
    IF io = "open_fails" THEN [fs |-> files, raised |-> "OSError"]
    ELSE LET stored == [kind |-> "file", complete |-> io = "ok", data |-> content]
         IN [ fs |-> [p \in DOMAIN files \cup {path} |->
                         IF p = path THEN stored ELSE files[p]],
              raised |-> IF io = "ok" THEN "none" ELSE "OSError" ]

\* ---------------------------------------------------------------- char_to_svg

Styles ==
    { [fill_color |-> "black", stroke_color |-> "none", stroke_width |-> 0],
      [fill_color |-> "#333333", stroke_color |-> "red", stroke_width |-> 2] }

Methods == {"metrics", "bounds"}

\* the glyph name char_to_svg settles on, <<>> when it raises ValueError
ResolveGlyph(f, char) ==
    IF UniName(char) \in GlyphSet(f) THEN UniName(char)
    ELSE IF LiteralName(char) \in GlyphSet(f) THEN LiteralName(char)
    ELSE <<>>

\* SVGPathPen: one path command per pen command
PenCommands(outline) ==
    [i \in 1..Len(outline) |->
        [c |-> CASE outline[i].op = "moveTo" -> "M"
                 [] outline[i].op = "lineTo" -> "L"
                 [] OTHER -> "Z",
         x |-> outline[i].x, y |-> outline[i].y]]

\* MetricsFrame with the except branch falling back to (0, 0) instead of (1000, 0)
MetricsFrameZeroDefault(f, glyph_name) ==
    LET m == IF glyph_name \in DOMAIN f.hmtx THEN f.hmtx[glyph_name] ELSE <<0, 0>>
        height == f.hhea.ascent - f.hhea.descent
    IN [viewbox |-> <<m[2], 0, m[1], height>>, ascent |-> f.hhea.ascent]

\* the viewBox and the flip anchor of the metrics policy
MetricsFrame(f, glyph_name) ==
    LET m == IF glyph_name \in DOMAIN f.hmtx THEN f.hmtx[glyph_name] ELSE <<1000, 0>>
        width == m[1]
        lsb == m[2]
        height == f.hhea.ascent - f.hhea.descent
    IN [viewbox |-> <<lsb, 0, width, height>>, ascent |-> f.hhea.ascent]

\* the viewBox and the flip anchor of the bounds policy
BoundsFrame(f, glyph_name) ==
    LET b == f.glyphs[glyph_name].bounds
    IN IF b # <<>>
       THEN [viewbox |-> <<b[1], b[2], b[3] - b[1], b[4] - b[2]>>, ascent |-> b[4]]
       ELSE [viewbox |-> <<0, 0, 1000, 1000>>, ascent |-> 1000]

\* CharDoc with the bounds policy moving the path data to the viewBox origin
CharDocShifted(f, glyph_name, style, method) ==
    LET frame == IF method = "metrics" THEN MetricsFrame(f, glyph_name)
                 ELSE BoundsFrame(f, glyph_name)
        path == PenCommands(f.glyphs[glyph_name].outline)
    IN [ viewbox      |-> frame.viewbox,
         fill         |-> style.fill_color,
         stroke       |-> style.stroke_color,
         stroke_width |-> style.stroke_width,
         anchor       |-> frame.ascent,
         d            |-> IF method = "metrics" THEN path
                          ELSE [i \in 1..Len(path) |->
                                   [path[i] EXCEPT !.x = @ - frame.viewbox[1],
                                                   !.y = @ - frame.viewbox[2]]] ]

\* svg_content of char_to_svg for a resolved glyph
CharDoc(f, glyph_name, style, method) ==
    LET frame == IF method = "metrics" THEN MetricsFrame(f, glyph_name)
                 ELSE BoundsFrame(f, glyph_name)
    IN [ viewbox      |-> frame.viewbox,
         fill         |-> style.fill_color,
         stroke       |-> style.stroke_color,
         stroke_width |-> style.stroke_width,
         anchor       |-> frame.ascent,
         d            |-> PenCommands(f.glyphs[glyph_name].outline) ]

\* char_to_svg: the exception raised ("none" when it returns), the value
\* returned and the file system it leaves
char_to_svg(f, files, char, output_path, style, method, io) ==
    LET glyph_name == ResolveGlyph(f, char)
    IN IF glyph_name = <<>>
       THEN [raised |-> "ValueError", ret |-> <<>>, fs |-> files]
       ELSE LET svg_content == CharDoc(f, glyph_name, style, method)
            IN IF output_path = NoPath
               THEN [raised |-> "none", ret |-> svg_content, fs |-> files]
               ELSE LET w == WriteFile(files, output_path, svg_content, io)
                    IN [ raised |-> w.raised,
                         ret |-> IF w.raised = "none" THEN svg_content ELSE <<>>,
                         fs |-> w.fs ]

CharToSvgCall ==
    /\ Len(input) = 1
    /\ \E output_path \in {NoPath, CharOutPath}, style \in Styles,
          method \in Methods, io \in IOOutcomes :
        /\ output_path = NoPath => io = "ok"
        /\ LET r == char_to_svg(font, fs, input[1], output_path, style, method, io)
           IN /\ last' = [ op |-> "char_to_svg",
                           args |-> [char |-> input[1], output_path |-> output_path,
                                     style |-> style, method |-> method, io |-> io],
                           raised |-> r.raised,
                           ret |-> r.ret ]
              /\ fs' = r.fs
    /\ UNCHANGED <<font, input>>

\* ---------------------------------------------------------------- batch_convert

OutputDir == <<111, 117, 116, 112, 117, 116, 95, 115, 118, 103>>     \* "output_svg"

\* os.makedirs(output_dir, exist_ok=True)
MakeDirs(files, dir) ==
    [p \in DOMAIN files \cup {dir} |->
        IF p \in DOMAIN files THEN files[p]
        ELSE [kind |-> "dir", complete |-> TRUE, data |-> <<>>]]

\* os.path.join(output_dir, f"u{char_hex}.svg")
BatchPath(dir, char) == dir \o <<47, 117>> \o CharHex(char) \o <<46, 115, 118, 103>>

\* **kwargs handed on to char_to_svg
BatchKwargs ==
    { [style |-> [fill_color |-> "black", stroke_color |-> "none", stroke_width |-> 0],
       method |-> "metrics"],
      [style |-> [fill_color |-> "#333333", stroke_color |-> "red", stroke_width |-> 2],
       method |-> "bounds"] }

\* one pass of the loop body: try char_to_svg, count, or catch and record
BatchStep(f, acc, char, dir, kwargs, io) ==
    LET r == char_to_svg(f, acc.fs, char, BatchPath(dir, char), kwargs.style, kwargs.method, io)
    IN IF r.raised = "none"
       THEN [ fs |-> r.fs, success |-> acc.success + 1, failed |-> acc.failed,
              failed_chars |-> acc.failed_chars ]
       ELSE [ fs |-> r.fs, success |-> acc.success, failed |-> acc.failed + 1,
              failed_chars |-> Append(acc.failed_chars, [char |-> char, error |-> r.raised]) ]

\* BatchLoop leaving the loop at the first character that fails
RECURSIVE BatchLoopAbort(_, _, _, _, _, _, _)
BatchLoopAbort(f, acc, chars, dir, kwargs, ios, i) ==
    IF i > Len(chars) THEN acc
    ELSE LET step == BatchStep(f, acc, chars[i], dir, kwargs, ios[i])
         IN IF step.failed > acc.failed THEN step
            ELSE BatchLoopAbort(f, step, chars, dir, kwargs, ios, i + 1)

\* for char in chars: ... over chars[i..]
RECURSIVE BatchLoop(_, _, _, _, _, _, _)
BatchLoop(f, acc, chars, dir, kwargs, ios, i) ==
    IF i > Len(chars) THEN acc
    ELSE BatchLoop(f, BatchStep(f, acc, chars[i], dir, kwargs, ios[i]),
                   chars, dir, kwargs, ios, i + 1)

\* batch_convert: the results dictionary and the file system it leaves
batch_convert(f, files, chars, dir, kwargs, ios) ==
    BatchLoop(f, [fs |-> MakeDirs(files, dir), success |-> 0, failed |-> 0,
                  failed_chars |-> <<>>],
              chars, dir, kwargs, ios, 1)

BatchConvertCall ==
    /\ Len(input) <= MaxBatchLen
    /\ \E kwargs \in BatchKwargs, ios \in [1..Len(input) -> IOOutcomes] :
        \* no file is opened for a character that does not resolve
        /\ \A i \in 1..Len(input) : ResolveGlyph(font, input[i]) = <<>> => ios[i] = "ok"
        /\ LET r == batch_convert(font, fs, input, OutputDir, kwargs, ios)
           IN /\ last' = [ op |-> "batch_convert",
                           args |-> [chars |-> input, output_dir |-> OutputDir,
                                     kwargs |-> kwargs, ios |-> ios],
                           raised |-> "none",
                           ret |-> [success |-> r.success, failed |-> r.failed,
                                    failed_chars |-> r.failed_chars] ]
              /\ fs' = r.fs
    /\ UNCHANGED <<font, input>>

\* ---------------------------------------------------------------- text_to_svg

\* text.split('\n')
RECURSIVE SplitFrom(_, _, _)
SplitFrom(text, i, lines) ==
    IF i > Len(text) THEN lines
    ELSE IF text[i] = 10
         THEN SplitFrom(text, i + 1, Append(lines, <<>>))
         ELSE SplitFrom(text, i + 1,
                        [lines EXCEPT ![Len(lines)] = Append(lines[Len(lines)], text[i])])

\* SplitLines as text.splitlines() splits: no empty line after a final line break
SplitLinesNoTrailing(text) ==
    LET lines == SplitFrom(text, 1, << <<>> >>)
    IN IF Len(lines) > 1 /\ lines[Len(lines)] = <<>>
       THEN SubSeq(lines, 1, Len(lines) - 1)
       ELSE lines

SplitLines(text) == SplitFrom(text, 1, << <<>> >>)

\* what one character adds to line_width in the first pass
WidthStep(f, char) ==
    IF UniName(char) \in GlyphSet(f)
    THEN IF UniName(char) \in DOMAIN f.hmtx THEN f.hmtx[UniName(char)][1] ELSE 1000
    ELSE 0

RECURSIVE LineWidth(_, _, _)
LineWidth(f, line, i) ==
    IF i > Len(line) THEN 0 ELSE WidthStep(f, line[i]) + LineWidth(f, line, i + 1)

\* max_width = max(max_width, line_width) over the lines, from 0
RECURSIVE MaxWidth(_, _, _)
MaxWidth(f, lines, i) ==
    IF i > Len(lines) THEN 0
    ELSE LET rest == MaxWidth(f, lines, i + 1)
             w == LineWidth(f, lines[i], 1)
         IN IF w > rest THEN w ELSE rest

\* the <g> element of one drawn glyph
GlyphGroup(f, glyph_name, x_pos, y_pos) ==
    [ tx |-> x_pos - f.hmtx[glyph_name][2], ty |-> y_pos,
      sx |-> 1, sy |-> -1,
      ux |-> 0, uy |-> -f.hhea.ascent,
      d |-> PenCommands(f.glyphs[glyph_name].outline) ]

\* one character of the drawing pass: the parts appended and the new x_pos
DrawStep(f, acc, char, y_pos) ==
    LET glyph_name == UniName(char)
    IN IF glyph_name \in GlyphSet(f)
       THEN IF glyph_name \in DOMAIN f.hmtx
            THEN [ parts |-> Append(acc.parts, GlyphGroup(f, glyph_name, acc.x_pos, y_pos)),
                   x_pos |-> acc.x_pos + f.hmtx[glyph_name][1] ]
            ELSE [parts |-> acc.parts, x_pos |-> acc.x_pos + 1000]
       ELSE [parts |-> acc.parts, x_pos |-> acc.x_pos + 1000]

RECURSIVE DrawLine(_, _, _, _, _)
DrawLine(f, acc, line, y_pos, i) ==
    IF i > Len(line) THEN acc
    ELSE DrawLine(f, DrawStep(f, acc, line[i], y_pos), line, y_pos, i + 1)

\* the drawing pass over lines[i..]: x_pos restarts at 0 on every line
RECURSIVE DrawLines(_, _, _, _, _)
DrawLines(f, parts, lines, line_spacing, i) ==
    IF i > Len(lines) THEN parts
    ELSE LET y_pos == i * line_spacing
             drawn == DrawLine(f, [parts |-> parts, x_pos |-> 0], lines[i], y_pos, 1)
         IN DrawLines(f, drawn.parts, lines, line_spacing, i + 1)

\* line_height (in tenths) and **kwargs of a text_to_svg call: the default
\* line height with no keyword, and a line height of 2 with a fill_color
TextOptions ==
    { [line_height |-> 12, kwargs |-> [k \in {} |-> ""]],
      [line_height |-> 20, kwargs |-> [k \in {"fill_color"} |-> "#333333"]] }

\* svg_content of text_to_svg; line spacing and height in tenths of a unit
TextDoc(f, text, line_height, kwargs) ==
    LET lines == SplitLines(text)
        max_width == MaxWidth(f, lines, 1)
        base_height == f.hhea.ascent - f.hhea.descent
        line_spacing == base_height * line_height
        total_height == Len(lines) * line_spacing
    IN [ viewbox |-> <<0, 0, max_width, total_height>>,
         fill |-> IF "fill_color" \in DOMAIN kwargs THEN kwargs["fill_color"] ELSE "black",
         groups |-> DrawLines(f, <<>>, lines, line_spacing, 1) ]

\* text_to_svg: the exception raised, the value returned, the file system left
text_to_svg(f, files, text, output_path, line_height, kwargs, io) ==
    LET svg_content == TextDoc(f, text, line_height, kwargs)
    IN IF output_path = NoPath
       THEN [raised |-> "none", ret |-> svg_content, fs |-> files]
       ELSE LET w == WriteFile(files, output_path, svg_content, io)
            IN [ raised |-> w.raised,
                 ret |-> IF w.raised = "none" THEN svg_content ELSE <<>>,
                 fs |-> w.fs ]

TextToSvgCall ==
    /\ \E output_path \in {NoPath, TextOutPath}, opt \in TextOptions, io \in IOOutcomes :
        /\ output_path = NoPath => io = "ok"
        /\ LET r == text_to_svg(font, fs, input, output_path, opt.line_height, opt.kwargs, io)
           IN /\ last' = [ op |-> "text_to_svg",
                           args |-> [text |-> input, output_path |-> output_path,
                                     line_height |-> opt.line_height,
                                     kwargs |-> opt.kwargs, io |-> io],
                           raised |-> r.raised,
                           ret |-> r.ret ]
              /\ fs' = r.fs
    /\ UNCHANGED <<font, input>>

\* ---------------------------------------------------------------- specifications

NoCall == [op |-> "none", args |-> <<>>, raised |-> "none", ret |-> <<>>]

\* the converter constructed on a font, nothing written, nothing called
Constructed ==
    /\ font \in Fonts
    /\ fs = <<>>
    /\ last = NoCall

\* every string the caller may hold
Init == Constructed /\ input \in Strings(MaxTextLen)

Next == CharToSvgCall \/ BatchConvertCall \/ TextToSvgCall

Spec == Init /\ [][Next]_vars

\* char_to_svg applied to every single character
InitChar == Constructed /\ input \in {s \in Strings(1) : Len(s) = 1}

SpecChar == InitChar /\ [][CharToSvgCall]_vars

\* batch_convert applied to every sequence of at most MaxBatchLen characters
InitBatch == Constructed /\ input \in Strings(MaxBatchLen)

SpecBatch == InitBatch /\ [][BatchConvertCall]_vars

\* text_to_svg applied to every text of at most MaxTextLen characters
InitText == Constructed /\ input \in Strings(MaxTextLen)

SpecText == InitText /\ [][TextToSvgCall]_vars

\* ---------------------------------------------------------------- claims: helpers

IsCharCall == last.op = "char_to_svg"

IsBatchCall == last.op = "batch_convert"

IsTextCall == last.op = "text_to_svg"

Returned == last.raised = "none"

\* the characters of chars[i..] whose attempt fails: no glyph, or a failing write
RECURSIVE FailedFrom(_, _, _)
FailedFrom(chars, ios, i) ==
    IF i > Len(chars) THEN <<>>
    ELSE IF ResolveGlyph(font, chars[i]) = <<>> \/ ios[i] # "ok"
         THEN <<chars[i]>> \o FailedFrom(chars, ios, i + 1)
         ELSE FailedFrom(chars, ios, i + 1)

Occurrences(seq, x) == Cardinality({i \in 1..Len(seq) : seq[i] = x})

CountBreaks(text) == Occurrences(text, 10)

MaxOf(S) == IF S = {} THEN 0 ELSE CHOOSE m \in S : \A n \in S : n <= m

\* the advance the specification gives a character: its glyph's advance width
\* when the glyph resolves and has metrics, 1000 otherwise
SpecAdvance(char) ==
    LET g == ResolveGlyph(font, char)
    IN IF g # <<>> /\ g \in DOMAIN font.hmtx THEN font.hmtx[g][1] ELSE 1000

RECURSIVE SpecLineAdvance(_, _)
SpecLineAdvance(line, i) ==
    IF i > Len(line) THEN 0 ELSE SpecAdvance(line[i]) + SpecLineAdvance(line, i + 1)

\* the path data of the glyphs a text should show: every character, line
\* breaks aside, whose glyph resolves and has metrics, in reading order
RECURSIVE SpecDrawn(_, _)
SpecDrawn(text, i) ==
    IF i > Len(text) THEN <<>>
    ELSE LET g == ResolveGlyph(font, text[i])
         IN IF text[i] # 10 /\ g # <<>> /\ g \in DOMAIN font.hmtx
            THEN <<PenCommands(font.glyphs[g].outline)>> \o SpecDrawn(text, i + 1)
            ELSE SpecDrawn(text, i + 1)

\* one line drawn on its own at height y_pos
LineAlone(line, y_pos) == DrawLine(font, [parts |-> <<>>, x_pos |-> 0], line, y_pos, 1)

RECURSIVE LinesAlone(_, _, _)
LinesAlone(lines, line_spacing, i) ==
    IF i > Len(lines) THEN <<>>
    ELSE LineAlone(lines[i], i * line_spacing).parts \o LinesAlone(lines, line_spacing, i + 1)

\* the image of the design point <<px, py>> under a glyph group's transform
\* "translate(tx, ty) scale(sx, sy) translate(ux, uy)"; y in tenths
GroupImage(g, px, py) == <<g.tx + g.sx * (px + g.ux), g.ty + 10 * g.sy * (py + g.uy)>>

\* ---------------------------------------------------------------- claims

\* C1: batch_convert attempts every character whatever failed before it:
\* success + failed is the length of the input, failed_chars holds exactly
\* the characters whose attempt failed, each with an error, in input order,
\* and every attempt that succeeds leaves its file.
C1_BatchAttemptsAll ==
    IsBatchCall =>
        LET chars == last.args.chars
            ios == last.args.ios
            res == last.ret
        IN /\ res.success + res.failed = Len(chars)
           /\ res.failed = Len(res.failed_chars)
           /\ [k \in 1..Len(res.failed_chars) |-> res.failed_chars[k].char]
                  = FailedFrom(chars, ios, 1)
           /\ \A k \in 1..Len(res.failed_chars) :
                  res.failed_chars[k].error \in {"ValueError", "OSError"}
           /\ \A i \in 1..Len(chars) :
                  (ResolveGlyph(font, chars[i]) # <<>> /\ ios[i] = "ok")
                      => BatchPath(last.args.output_dir, chars[i]) \in DOMAIN fs

\* a batch whose first character fails and whose second one is converted
C1_Witness ==
    /\ IsBatchCall
    /\ Len(last.args.chars) = 2
    /\ last.ret.success = 1
    /\ last.ret.failed = 1
    /\ last.ret.failed_chars[1].char = last.args.chars[1]
    /\ last.args.chars[1] # last.args.chars[2]

\* C2: the width of the text document is the largest line advance, a
\* character counting its advance width when its glyph and metrics exist and
\* 1000 otherwise, and so equals the largest final cursor of the drawing pass.
C2_DocWidth ==
    (IsTextCall /\ Returned) =>
        LET lines == SplitLines(last.args.text)
            idx == 1..Len(lines)
        IN /\ last.ret.viewbox[3] = MaxOf({SpecLineAdvance(lines[i], 1) : i \in idx})
           /\ last.ret.viewbox[3] = MaxOf({LineAlone(lines[i], 0).x_pos : i \in idx})

\* C3: every operation resolves a character by the "uni" + hex name first and
\* by the literal character second: char_to_svg raises only when both are
\* absent, and text_to_svg draws every character that resolves either way.
C3_FallbackKey ==
    /\ IsCharCall =>
          ((last.raised = "ValueError") <=>
              (/\ UniName(last.args.char) \notin GlyphSet(font)
               /\ LiteralName(last.args.char) \notin GlyphSet(font)))
    /\ (IsTextCall /\ Returned) =>
          [k \in 1..Len(last.ret.groups) |-> last.ret.groups[k].d]
              = SpecDrawn(last.args.text, 1)

\* C4: under the metrics policy char_to_svg gives every resolvable character
\* the viewBox (lsb, 0, advance, ascent - descent) and the anchor ascent,
\* with (advance, lsb) = (1000, 0) when hmtx has no entry; missing metrics
\* never make it fail.
C4_MetricsViewBox ==
    (IsCharCall /\ last.args.method = "metrics"
                /\ ResolveGlyph(font, last.args.char) # <<>>) =>
        LET g == ResolveGlyph(font, last.args.char)
            adv == IF g \in DOMAIN font.hmtx THEN font.hmtx[g][1] ELSE 1000
            lsb == IF g \in DOMAIN font.hmtx THEN font.hmtx[g][2] ELSE 0
        IN /\ last.raised # "ValueError"
           /\ last.args.output_path = NoPath => Returned
           /\ Returned =>
                 /\ last.ret.viewbox
                        = <<lsb, 0, adv, font.hhea.ascent - font.hhea.descent>>
                 /\ last.ret.anchor = font.hhea.ascent

\* a glyph without an hmtx entry rendered under the metrics policy
C4_Witness ==
    /\ IsCharCall
    /\ Returned
    /\ last.args.method = "metrics"
    /\ ResolveGlyph(font, last.args.char) \notin DOMAIN font.hmtx
    /\ last.ret.viewbox = <<0, 0, 1000, 1000>>

\* C5: a failing write in char_to_svg or text_to_svg is raised to the caller
\* and leaves the output path with its previous content or without a file.
C5_AtomicWrite ==
    [][ last'.op \in {"char_to_svg", "text_to_svg"} =>
            /\ (last'.args.io # "ok" /\ last'.raised # "ValueError")
                   => last'.raised = "OSError"
            /\ last'.raised = "OSError" =>
                   LET p == last'.args.output_path
                   IN p \in DOMAIN fs' => (p \in DOMAIN fs /\ fs'[p] = fs[p]) ]_vars

\* C6: after batch_convert into an empty directory the file of a character
\* exists exactly when that character was counted as a success.
C6_FileIffSuccess ==
    [][ (/\ last'.op = "batch_convert"
         /\ \A c \in Chars : BatchPath(OutputDir, c) \notin DOMAIN fs) =>
            \A c \in Chars :
                (BatchPath(OutputDir, c) \in DOMAIN fs') <=>
                    (Occurrences(last'.args.chars, c) >
                        Cardinality({k \in 1..Len(last'.ret.failed_chars) :
                                        last'.ret.failed_chars[k].char = c})) ]_vars

\* C7: text_to_svg makes one line slot per line break plus one, the height
\* is the slot count times (ascent - descent) times line_height, an empty
\* line has width 0, and the cursor restarts at 0 on every line, so a line is
\* drawn as it would be drawn alone.
C7_LineSlots ==
    (IsTextCall /\ Returned) =>
        LET text == last.args.text
            lines == SplitLines(text)
            base == font.hhea.ascent - font.hhea.descent
            spacing == base * last.args.line_height
        IN /\ Len(lines) = CountBreaks(text) + 1
           /\ last.ret.viewbox[4] = (CountBreaks(text) + 1) * base * last.args.line_height
           /\ last.ret.viewbox[3]
                  = MaxOf({LineWidth(font, lines[i], 1) :
                              i \in {j \in 1..Len(lines) : lines[j] # <<>>}})
           /\ last.ret.groups = LinesAlone(lines, spacing, 1)

\* two drawn lines with an empty line between them, at the default line height
C7_Witness ==
    /\ IsTextCall
    /\ Returned
    /\ LET lines == SplitLines(last.args.text)
       IN /\ Len(lines) = 3
          /\ lines[1] # <<>>
          /\ lines[2] = <<>>
          /\ lines[3] # <<>>
    /\ Len(last.ret.groups) = 2
    /\ last.ret.groups[1].tx = last.ret.groups[2].tx
    /\ last.ret.groups[2].ty = 3 * 12000
    /\ last.ret.viewbox[4] = 3 * 12000

\* C8: the viewbox policy changes only the viewBox and the flip anchor: the
\* other policy resolves or fails alike and gives the same path data and
\* the same style.
C8_PolicyFrame ==
    IsCharCall =>
        LET a == last.args
            other == char_to_svg(font, fs, a.char, NoPath, a.style,
                               IF a.method = "metrics" THEN "bounds" ELSE "metrics", "ok")
        IN /\ (last.raised = "ValueError") <=> (other.raised = "ValueError")
           /\ Returned =>
                 /\ other.raised = "none"
                 /\ other.ret.d = last.ret.d
                 /\ other.ret.fill = last.ret.fill
                 /\ other.ret.stroke = last.ret.stroke
                 /\ other.ret.stroke_width = last.ret.stroke_width

\* a character rendered under the bounds policy whose frame differs from the
\* frame of the metrics policy
C8_Witness ==
    /\ IsCharCall
    /\ Returned
    /\ last.args.method = "bounds"
    /\ last.ret.d # <<>>
    /\ last.ret.viewbox # MetricsFrame(font, ResolveGlyph(font, last.args.char)).viewbox
    /\ last.ret.anchor # font.hhea.ascent

\* C9: a glyph drawn by text_to_svg on line i at cursor c has its design
\* origin at (c - lsb, i * line spacing): the design point (px, py) lands at
\* (c - lsb + px, i * line spacing - py).
C9_Baseline ==
    (IsTextCall /\ Returned) =>
        \A k \in 1..Len(last.ret.groups) :
            LET g == last.ret.groups[k]
                spacing == (font.hhea.ascent - font.hhea.descent) * last.args.line_height
            IN /\ \E i \in 1..(CountBreaks(last.args.text) + 1) : g.ty = i * spacing
               /\ \A px \in {0, 100}, py \in {0, 700} :
                      GroupImage(g, px, py) = <<g.tx + px, g.ty - 10 * py>>

\* C10: under the bounds policy the glyph's bounding box, flipped by
\* matrix(1 0 0 -1 0 anchor), lies inside the emitted viewBox.
C10_BoundsVisible ==
    (/\ IsCharCall
     /\ Returned
     /\ last.args.method = "bounds"
     /\ font.glyphs[ResolveGlyph(font, last.args.char)].bounds # <<>>) =>
        LET b == font.glyphs[ResolveGlyph(font, last.args.char)].bounds
            vb == last.ret.viewbox
            anchor == last.ret.anchor
        IN \A x \in {b[1], b[3]}, y \in {b[2], b[4]} :
               /\ vb[1] <= x /\ x <= vb[1] + vb[3]
               /\ vb[2] <= anchor - y /\ anchor - y <= vb[2] + vb[4]

====
